---- MODULE Spec2Model ----
(***************************************************************************)
(* Model of apps/nbody.py: the Body class (force, update, collision), the  *)
(* update_orbits tick and the main loop with its drag gesture and spawn.   *)
(*                                                                         *)
(* Numbers.  The program computes in floating point on quantities of the   *)
(* order of 1E24.  The model computes in integers on a small grid: every   *)
(* expression keeps the shape and the evaluation order of the source, the  *)
(* program constants are reduced to small values, a division rounds        *)
(* towards zero and a norm is the integer part of the Euclidean norm.      *)
(* A force between two bodies at exactly the same position is 0/0 in the   *)
(* source; a tick that would evaluate such a force is outside the model    *)
(* (the tick actions are disabled there).                                  *)
(*                                                                         *)
(* Left out: the colour of a body, its cached px/py (always equal to the   *)
(* components of p) and all drawing.                                       *)
(***************************************************************************)
EXTENDS Integers, Sequences, FiniteSets, TLC

\* ------------------------------------------------------------------ bounds
\* The number of ticks (calls of update_orbits) a behaviour may run.
MaxTicks == 7

\* ------------------------------------------------------- program constants
\* The values are the program's reduced to a grid of small integers (the
\* program's values are given with each), so that a close approach, an escape
\* and a collision all happen within a few ticks.
\* Gravitational constant, 6.67E-11 in Body.force.
G == 2
\* Maximum time step of a body, 1000 in Body.__init__.
hmax == 2
\* Local truncation error tolerance, 10000 in Body.__init__.
lte_tolerance == 4
\* Screen size in pixels, 1000 by 1000.
screen_width == 16
screen_height == 16
\* Radius of the space around the origin, 170E6.
spacemax == 8
\* Velocity of a drag across the whole screen, 10E3.
vmax == 16
\* Mass and radius of the Earth, bodies[0]: 5.97E24 and 32E5.
EarthMass == 16
EarthRadius == 2
\* Mass and radius of the spacecraft and of every spawned body: 1E20 and 16E5.
CraftMass == 1
CraftRadius == 1

\* Mouse positions the user may press, hold or release the left button at:
\* the top left corner (outside the space), next to the centre, and two
\* neighbouring pixels at the right edge.
MousePositions == {<<0, 0>>, <<9, 8>>, <<14, 8>>, <<15, 8>>}

VARIABLES
    bodies,       \* the global list of bodies; bodies[1] is the Earth
    pc,           \* where the main loop is: "loop", "poll", "drag", "release", "exit"
    sling_start,  \* mouse position at the start of the drag, <<>> before the first
    sling_stop,   \* mouse position at the last drag iteration, <<>> before the first
    nextId,       \* identity of the next Body object constructed
    ticks,        \* calls of update_orbits so far
    pre,          \* history: bodies when the last update_orbits was entered
    mid           \* history: bodies after the first loop of the last update_orbits

vars == <<bodies, pc, sling_start, sling_stop, nextId, ticks, pre, mid>>

\* ---------------------------------------------------------------- numbers
\* a / b for b > 0, rounded towards zero.
Quot(a, b) == IF a >= 0 THEN a \div b ELSE -((-a) \div b)

RECURSIVE SqrtBetween(_, _, _)
SqrtBetween(n, lo, hi) ==
    IF lo >= hi THEN lo
    ELSE LET m == (lo + hi + 1) \div 2
         IN IF m * m <= n THEN SqrtBetween(n, m, hi) ELSE SqrtBetween(n, lo, m - 1)

\* Integer part of the square root of n < 2^30.
ISqrt(n) == SqrtBetween(n, 0, 32767)

VAdd(a, b) == <<a[1] + b[1], a[2] + b[2]>>
VSub(a, b) == <<a[1] - b[1], a[2] - b[2]>>
VScale(k, a) == <<k * a[1], k * a[2]>>
VQuot(a, k) == <<Quot(a[1], k), Quot(a[2], k)>>

\* np.linalg.norm
Norm(a) == ISqrt(a[1] * a[1] + a[2] * a[2])

\* ------------------------------------------------------------------- Body
\* Mutant of Body: the step size does not start at hmax.
Body_UnitStep(id, mass, velocity, position, radius) ==
    [id |-> id, m |-> mass, v |-> velocity, p |-> position, r |-> radius, h |-> 1]

\* Body.__init__: the step size starts at hmax.
Body(id, mass, velocity, position, radius) ==
    [id |-> id, m |-> mass, v |-> velocity, p |-> position, r |-> radius, h |-> hmax]

\* One pass of the else branch of Body.force: the force of target on self.
PairForce(self, target) ==
    LET d == VSub(target.p, self.p)
        n == Norm(d)
    IN VQuot(VScale(G * self.m * target.m, d), n * n * n)

\* The loop of Body.force from targets[k] on: force is the local the else
\* branch assigns and the self entry leaves alone; it is added every pass.
RECURSIVE ForceLoop(_, _, _, _, _)
ForceLoop(self, targets, k, force, sum_force) ==
    IF k > Len(targets) THEN sum_force
    ELSE LET f == IF targets[k].id = self.id
                  THEN force
                  ELSE PairForce(self, targets[k])
         IN ForceLoop(self, targets, k + 1, f, VAdd(sum_force, f))

\* Body.force
Force(self, targets) == ForceLoop(self, targets, 1, <<0, 0>>, <<0, 0>>)

\* The source divides by the cube of the distance: Force is defined when no
\* target other than self is at self's position.
ForceDefined(self, targets) ==
    \A k \in 1..Len(targets) :
        targets[k].id # self.id => targets[k].p # self.p

\* Mutant of StepSize: hnew is adopted without the limit to hmax.
StepSize_Unlimited(h, lte) ==
    IF lte = 0
    THEN hmax
    ELSE CHOOSE n \in 1..(h * lte_tolerance) :
            /\ n * n * lte >= h * h * lte_tolerance
            /\ \A k \in 1..(n - 1) : k * k * lte < h * h * lte_tolerance

\* Body.update, the step-size part: hnew = h * sqrt(lte_tolerance / lte) is
\* compared with hmax exactly (lte = 0 makes hnew infinite); an adopted hnew
\* is rounded up to the next whole step.
StepSize(h, lte) ==
    IF h * h * lte_tolerance > hmax * hmax * lte
    THEN hmax
    ELSE CHOOSE n \in 1..hmax :
            /\ n * n * lte >= h * h * lte_tolerance
            /\ \A k \in 1..(n - 1) : k * k * lte < h * h * lte_tolerance

\* The position Body.update commits, before it evaluates force again.
NewPosition(self, targets) ==
    LET fe == Force(self, targets)
        ve == VAdd(self.v, VQuot(VScale(self.h, fe), self.m))
    IN VAdd(self.p, VQuot(VScale(self.h, VAdd(self.v, ve)), 2))

\* Mutant of Update: the second force is evaluated before the position moves.
Update_ForceBeforeMove(self, targets) ==
    LET fe == Force(self, targets)
        pe == VAdd(self.p, VScale(self.h, self.v))
        ve == VAdd(self.v, VQuot(VScale(self.h, fe), self.m))
        f1 == Force(self, targets)
        p1 == VAdd(self.p, VQuot(VScale(self.h, VAdd(self.v, ve)), 2))
        v1 == VAdd(self.v, VQuot(VScale(self.h, VAdd(fe, f1)), 2 * self.m))
        lte == Norm(VSub(pe, p1)) + self.h * Norm(VSub(ve, v1))
    IN [self EXCEPT !.p = p1, !.v = v1, !.h = StepSize(self.h, lte)]

\* Body.update: self after the call; targets holds self as it was before.
Update(self, targets) ==
    LET fe == Force(self, targets)
        pe == VAdd(self.p, VScale(self.h, self.v))
        ve == VAdd(self.v, VQuot(VScale(self.h, fe), self.m))
        p1 == VAdd(self.p, VQuot(VScale(self.h, VAdd(self.v, ve)), 2))
        moved == [self EXCEPT !.p = p1]
        f1 == Force(moved, targets)
        v1 == VAdd(self.v, VQuot(VScale(self.h, VAdd(fe, f1)), 2 * self.m))
        lte == Norm(VSub(pe, p1)) + self.h * Norm(VSub(ve, v1))
    IN [self EXCEPT !.p = p1, !.v = v1, !.h = StepSize(self.h, lte)]

\* Both force evaluations of Body.update are defined.
UpdateDefined(self, targets) ==
    /\ ForceDefined(self, targets)
    /\ ForceDefined([self EXCEPT !.p = NewPosition(self, targets)], targets)

\* Mutant of Collision: the test against the space is missing.
Collision_NoSpaceTest(self, targets) ==
    \E k \in 1..Len(targets) :
        /\ targets[k].id # self.id
        /\ Norm(VSub(targets[k].p, self.p)) < targets[k].r + self.r

\* Mutant of Collision: the distance is compared with the radius of self alone.
Collision_OwnRadius(self, targets) ==
    \E k \in 1..Len(targets) :
        IF targets[k].id = self.id
        THEN Norm(self.p) > spacemax
        ELSE Norm(VSub(targets[k].p, self.p)) < self.r

\* Body.collision
Collision(self, targets) ==
    \E k \in 1..Len(targets) :
        IF targets[k].id = self.id
        THEN Norm(self.p) > spacemax
        ELSE Norm(VSub(targets[k].p, self.p)) < targets[k].r + self.r

\* ---------------------------------------------------------- update_orbits
\* The first loop of update_orbits from bodies[i] on: each body is updated
\* in place against the list as it is then.
RECURSIVE UpdateFrom(_, _)
UpdateFrom(i, bs) ==
    IF i > Len(bs) THEN bs
    ELSE UpdateFrom(i + 1, [bs EXCEPT ![i] = Update(bs[i], bs)])

UpdateLoop(bs) == UpdateFrom(1, bs)

RECURSIVE UpdateLoopDefinedFrom(_, _)
UpdateLoopDefinedFrom(i, bs) ==
    IF i > Len(bs) THEN TRUE
    ELSE /\ UpdateDefined(bs[i], bs)
         /\ UpdateLoopDefinedFrom(i + 1, [bs EXCEPT ![i] = Update(bs[i], bs)])

UpdateLoopDefined(bs) == UpdateLoopDefinedFrom(1, bs)

\* bodies.remove(body)
Remove(live, body) == SelectSeq(live, LAMBDA b : b.id # body.id)

\* The second loop of update_orbits: it runs over the copy bodies[1:] made
\* when it starts, and checks and removes on the live list.
RECURSIVE CollisionFrom(_, _, _)
CollisionFrom(k, copy, live) ==
    IF k > Len(copy) THEN live
    ELSE IF Collision(copy[k], live)
         THEN CollisionFrom(k + 1, copy, Remove(live, copy[k]))
         ELSE CollisionFrom(k + 1, copy, live)

CollisionLoop(bs) == CollisionFrom(1, Tail(bs), bs)

\* update_orbits
UpdateOrbits ==
    /\ ticks < MaxTicks
    /\ UpdateLoopDefined(bodies)
    /\ ticks' = ticks + 1
    /\ pre' = bodies
    /\ mid' = UpdateLoop(bodies)
    /\ bodies' = CollisionLoop(UpdateLoop(bodies))

\* -------------------------------------------------------------- main loop
\* The position and the velocity of the body a drag spawns.
SlingPosition(start) ==
    <<Quot(spacemax * (2 * start[1] - screen_width), screen_width),
      -Quot(spacemax * (2 * start[2] - screen_height), screen_height)>>

SlingVelocity(start, stop) ==
    <<Quot(vmax * (start[1] - stop[1]), screen_width),
      -Quot(vmax * (start[2] - stop[2]), screen_height)>>

Earth == Body(1, EarthMass, <<0, 0>>, <<0, 0>>, EarthRadius)
Craft == Body(2, CraftMass, <<2, 0>>, <<0, 4>>, CraftRadius)

Init ==
    /\ bodies = <<Earth, Craft>>
    /\ pc = "loop"
    /\ sling_start = <<>>
    /\ sling_stop = <<>>
    /\ nextId = 3
    /\ ticks = 0
    /\ pre = <<>>
    /\ mid = <<>>

\* update_orbits() at the top of the loop, then the exit when the Earth is
\* outside the space.
MainTick ==
    /\ pc = "loop"
    /\ UpdateOrbits
    /\ pc' = IF Norm(bodies'[1].p) > spacemax THEN "exit" ELSE "poll"
    /\ UNCHANGED <<sling_start, sling_stop, nextId>>

\* The event pump finds no button pressed.
PollIdle ==
    /\ pc = "poll"
    /\ pc' = "loop"
    /\ UNCHANGED <<bodies, sling_start, sling_stop, nextId, ticks, pre, mid>>

\* The event pump finds the right button pressed.
PollQuit ==
    /\ pc = "poll"
    /\ pc' = "exit"
    /\ UNCHANGED <<bodies, sling_start, sling_stop, nextId, ticks, pre, mid>>

\* The event pump finds the left button (and not the right) pressed at pos.
PollDrag(pos) ==
    /\ pc = "poll"
    /\ sling_start' = pos
    /\ pc' = "drag"
    /\ UNCHANGED <<bodies, sling_stop, nextId, ticks, pre, mid>>

\* One pass of the drag loop: the pump finds the mouse at pos with the left
\* button still held or released, then update_orbits(); no exit test.
DragTick(pos, held) ==
    /\ pc = "drag"
    /\ sling_stop' = pos
    /\ UpdateOrbits
    /\ pc' = IF held THEN "drag" ELSE "release"
    /\ UNCHANGED <<sling_start, nextId>>

\* After the drag loop: the new body is appended.
Spawn ==
    /\ pc = "release"
    /\ bodies' = Append(bodies,
                        Body(nextId, CraftMass, SlingVelocity(sling_start, sling_stop),
                             SlingPosition(sling_start), CraftRadius))
    /\ nextId' = nextId + 1
    /\ pc' = "loop"
    /\ UNCHANGED <<sling_start, sling_stop, ticks, pre, mid>>

Next ==
    \/ MainTick
    \/ PollIdle
    \/ PollQuit
    \/ \E pos \in MousePositions : PollDrag(pos)
    \/ \E pos \in MousePositions, held \in BOOLEAN : DragTick(pos, held)
    \/ Spawn

Spec == Init /\ [][Next]_vars

\* ================================================================ claims
\* The ids of the bodies of a list.
Ids(bs) == {bs[k].id : k \in 1..Len(bs)}

\* Two bodies overlap: their centres are closer than the sum of their radii.
Overlap(a, b) == Norm(VSub(b.p, a.p)) < a.r + b.r

\* No two bodies of the list are at exactly the same position.
NoCoincident(bs) ==
    \A i, j \in 1..Len(bs) : i # j => bs[i].p # bs[j].p

\* The vector sum of the pairwise forces on self of targets[k..] other than self.
RECURSIVE SumOfOthers(_, _, _)
SumOfOthers(self, targets, k) ==
    IF k > Len(targets) THEN <<0, 0>>
    ELSE VAdd(IF targets[k].id = self.id THEN <<0, 0>> ELSE PairForce(self, targets[k]),
              SumOfOthers(self, targets, k + 1))

\* The list as it is when the first loop of the last update_orbits reaches
\* bodies[i]: the bodies before i are updated, those from i on are not.
ListAt(i) == [j \in 1..Len(pre) |-> IF j < i THEN mid[j] ELSE pre[j]]

\* A call of update_orbits has completed and nothing was spawned since.
AfterTick == ticks > 0 /\ pc # "loop"

\* C1: for every body b of the live list (no two bodies coincident), force(b, bodies)
\* is the vector sum of the pairwise forces of the targets other than b, wherever
\* b is in the list.
C1_ForceIsSumOfOthers ==
    NoCoincident(bodies) =>
        \A i \in 1..Len(bodies) :
            Force(bodies[i], bodies) = SumOfOthers(bodies[i], bodies, 1)

\* C2: for any two live bodies A and B (not coincident), in either list order,
\* force(A, [A, B]) = -force(B, [A, B]).
C2_ForceAntisymmetric ==
    \A i, j \in 1..Len(bodies) :
        (i # j /\ bodies[i].p # bodies[j].p) =>
            LET A == bodies[i]
                B == bodies[j]
            IN /\ Force(A, <<A, B>>) = VScale(-1, Force(B, <<A, B>>))
               /\ Force(A, <<B, A>>) = VScale(-1, Force(B, <<B, A>>))

\* C3: a tick advances every body against the list as it was when the tick began:
\* the list after the first loop of update_orbits is the list of the bodies each
\* updated against the pre-tick list.
C3_TickUsesSnapshot ==
    (ticks > 0 /\ \A i \in 1..Len(pre) : UpdateDefined(pre[i], pre)) =>
        mid = [i \in 1..Len(pre) |-> Update(pre[i], pre)]

\* The bodies the collision phase is specified to remove: the bodies other than
\* the first that overlap some other body of the list the phase began with.
Colliding(bs) ==
    {bs[i].id : i \in {i \in 2..Len(bs) :
                        \E j \in 1..Len(bs) : j # i /\ Overlap(bs[i], bs[j])}}

\* C4: with all bodies inside the space, the collision phase removes exactly the
\* bodies other than the Earth that overlap some other body of the list the phase
\* began with, and the list shrinks by that count.
C4_RemovesExactlyColliding ==
    (AfterTick /\ \A k \in 1..Len(mid) : Norm(mid[k].p) <= spacemax) =>
        /\ Ids(bodies) = Ids(mid) \ Colliding(mid)
        /\ Len(bodies) = Len(mid) - Cardinality(Colliding(mid))

\* C5: the session is never left running with the Earth outside the space: a tick
\* that ends with the Earth farther than spacemax from the origin ends the session
\* before another tick or a spawn.
C5_EscapeEndsSession ==
    pc # "exit" => Norm(bodies[1].p) <= spacemax

\* C6: every body's step size satisfies 0 < h <= hmax, at creation and after any
\* number of updates.
C6_StepBounded ==
    /\ \A i \in 1..Len(bodies) : 0 < bodies[i].h /\ bodies[i].h <= hmax
    /\ \A i \in 1..Len(mid) : 0 < mid[i].h /\ mid[i].h <= hmax

\* C6 witness: an update adopted a step below hmax for one body and an update
\* committed hmax for another.
C6_Witness ==
    /\ ticks > 0
    /\ \E i \in 1..Len(mid) : mid[i].h < hmax
    /\ \E i \in 1..Len(mid) : mid[i].h = hmax /\ mid[i] # pre[i]

\* C7: a body other than the Earth that is outside the space when the collision
\* phase checks it is removed in that tick, so after every completed tick every
\* live body other than the Earth is within spacemax of the origin.
C7_LeaversRemoved ==
    AfterTick =>
        /\ \A k \in 2..Len(mid) :
              Norm(mid[k].p) > spacemax => mid[k].id \notin Ids(bodies)
        /\ \A i \in 2..Len(bodies) : Norm(bodies[i].p) <= spacemax

\* C7 witness: a main tick in which a body other than the Earth left the space
\* has completed and the session goes on.
C7_Witness ==
    /\ ticks > 0
    /\ pc = "poll"
    /\ \E k \in 2..Len(mid) :
          /\ Norm(mid[k].p) > spacemax
          /\ \A j \in 1..Len(mid) : j # k => ~Overlap(mid[k], mid[j])

\* C8: a spawn appends exactly one body, with the mass and radius of a spawned
\* body, the velocity and position of the drag and step size hmax, and leaves
\* the bodies already in the list and their order as they are.
C8_SpawnAppendsOne ==
    [][pc = "release" =>
        /\ Len(bodies') = Len(bodies) + 1
        /\ SubSeq(bodies', 1, Len(bodies)) = bodies
        /\ LET b == bodies'[Len(bodies')]
           IN /\ b.m = CraftMass
              /\ b.r = CraftRadius
              /\ b.v = SlingVelocity(sling_start, sling_stop)
              /\ b.p = SlingPosition(sling_start)
              /\ b.h = hmax
              /\ b.id \notin Ids(bodies)]_vars

\* C8 witness: a spawn has just appended a body to a list of at least two bodies.
C8_Witness ==
    /\ ticks > 0
    /\ pc = "loop"
    /\ Len(bodies) = Len(CollisionLoop(mid)) + 1
    /\ Len(bodies) >= 3
    /\ bodies[Len(bodies)].id = nextId - 1

\* C9 as stated: the second force evaluation of update sees the body at the
\* position it had when update was called, so it equals the first and the
\* committed velocity is velocity + h * f0 / mass.
C9_SecondForceAtOldPosition ==
    ticks > 0 =>
        \A i \in 1..Len(pre) :
            LET self == pre[i]
                f0 == Force(self, ListAt(i))
            IN mid[i].v = VAdd(self.v, VQuot(VScale(self.h, VAdd(f0, f0)), 2 * self.m))

\* C9 amended: the second force evaluation of update sees the body at the new
\* position update has already committed, and the committed velocity is
\* velocity + h * (f0 + f1) / (2 * mass) with f1 the force at that new position.
C9_SecondForceAtNewPosition ==
    ticks > 0 =>
        \A i \in 1..Len(pre) :
            LET self == pre[i]
                f0 == Force(self, ListAt(i))
                f1 == Force([self EXCEPT !.p = mid[i].p], ListAt(i))
            IN mid[i].v = VAdd(self.v, VQuot(VScale(self.h, VAdd(f0, f1)), 2 * self.m))

\* C9 witness: an update whose two force evaluations differ, the body having moved.
C9_Witness ==
    /\ ticks > 0
    /\ \E i \in 1..Len(pre) :
          /\ mid[i].p # pre[i].p
          /\ Force([pre[i] EXCEPT !.p = mid[i].p], ListAt(i)) # Force(pre[i], ListAt(i))

\* C10: after the collision phase of every tick no two live bodies overlap.
C10_NoOverlapAfterTick ==
    AfterTick =>
        \A i, j \in 1..Len(bodies) : i # j => ~Overlap(bodies[i], bodies[j])

\* C10 witness: the collision phase began with two overlapping bodies other than
\* the Earth, removed one while scanning and kept the other.
C10_Witness ==
    /\ AfterTick
    /\ \E i, j \in 2..Len(mid) :
          /\ i # j
          /\ Overlap(mid[i], mid[j])
          /\ mid[i].id \notin Ids(bodies)
          /\ mid[j].id \in Ids(bodies)

====
